---- MODULE Spec2Model ----
(***************************************************************************)
(* A model of the Dune -> PostgreSQL synchronisation engine of            *)
(* data_integration: PgLoader (utils/worker/pg_loader.py), DuneExtractor   *)
(* (utils/worker/dune_extractor.py), DuneToPgWorker and the pipeline of    *)
(* pull_raw/__main__.py.                                                   *)
(*                                                                         *)
(* The relational store is PostgreSQL reached through one SQLAlchemy 2.x   *)
(* Connection (the code calls connection.commit()).  Its behaviour is the  *)
(* environment of the model:                                               *)
(*   - statements executed on the connection (DDL included) are            *)
(*     transactional: they change the connection's view `txn`, commit      *)
(*     copies the view to the committed state `db`, rollback restores the  *)
(*     view from `db`;                                                     *)
(*   - Table.create(connection.engine) runs on another pooled connection   *)
(*     inside engine.begin(), so it is committed at once;                  *)
(*   - DataFrame.to_sql(con=connection) joins the connection's running     *)
(*     transaction and does not commit;                                    *)
(*   - any statement may fail for a reason of the store (OperationalError).*)
(***************************************************************************)
EXTENDS Integers, Sequences, FiniteSets, TLC

\* ------------------------------------------------------------------ bounds
\* Largest number of records of a RowSet handed to a load call.
MaxRows == 2

\* ------------------------------------------------------------------ data
\* Values of the key column "id" and of the non-key column "date".
Ids == {1, 2}
Dates == {0, 1}
\* A DataFrame has the columns id and date, in this order.
Columns == <<"id", "date">>
Row == [id : Ids, date : Dates]
RowSets == UNION {[1..n -> Row] : n \in 0..MaxRows}
\* unique_keys arguments: absent/empty, the key column, every column.
UniqueKeyChoices == {<<>>, <<"id">>, <<"id", "date">>}

ToSet(s) == {s[i] : i \in 1..Len(s)}

\* Python's None.
NoneValue == "None"

\* A table of the schema: `uniq` is the column set of its unique constraint
\* (empty: the table has none).
NoTable == [exists |-> FALSE, rows |-> <<>>, uniq |-> {}]
Table(rows, uniq) == [exists |-> TRUE, rows |-> rows, uniq |-> uniq]

\* Projection of a row on a set of columns.
KeyOf(r, cols) == [c \in cols |-> r[c]]
HasDupKeys(rows, cols) ==
    \E i, j \in 1..Len(rows) : i < j /\ KeyOf(rows[i], cols) = KeyOf(rows[j], cols)

\* States of the store before the first call: no schema, an empty schema,
\* or a target table created outside the engine with a unique constraint on
\* the key column.  Tables without a constraint are the ones the engine
\* creates (create_table_from_dataframe) and are reached through it.
ExternalTables ==
    {Table(rs, {"id"}) : rs \in {x \in RowSets : ~HasDupKeys(x, {"id"})}}
InitialStores ==
    {[schema |-> FALSE, target |-> NoTable, staging |-> NoTable]}
    \cup {[schema |-> TRUE, target |-> t, staging |-> NoTable] :
            t \in {NoTable} \cup ExternalTables}

VARIABLES
    db,      \* committed state of the store
    txn,     \* the connection's view: db plus its uncommitted statements
    pc,      \* position of the running PgLoader call
    op,      \* the public method called
    df,      \* its DataFrame argument
    uk,      \* its unique_keys argument
    before,  \* committed state when the call began
    twice,   \* the call repeats the previous, successful load_full_refresh
    last,    \* <<df>> of the previous call when it was a successful
             \* load_full_refresh, else <<>>
    log,     \* store actions of the call, in order
    exc,     \* the exception raised in the call ("none": none)
    strategy,  \* the load DuneToPgWorker.load_to_postgres chose for the call
               \* (NoStrategy: PgLoader was called directly)
    \* DuneToPgWorker.fetch and DuneExtractor
    clock,        \* time.time(), in seconds since fetch was called
    xpc,          \* position of the running fetch call
    xexc,         \* the exception raised in it ("none": none)
    query,        \* [id, parameters]: arguments of execute_query
    max_wait,     \* max_wait_time argument
    payload,      \* JSON body of the POST sent by execute_query
    submit_time,  \* clock when the POST was sent
    start_time,   \* start_time of get_results
    polls,        \* status requests sent so far
    response,     \* state of the last status response
    error,        \* its field 'error' (NoneValue: it has none)
    error_msg,    \* error_msg of get_results, carried by its RuntimeError
    result,       \* rows returned by fetch
    \* DuneBitcoinPipeline
    etl_job,        \* active rows of the control table etl.etl_job, in order
    remote_failed,  \* query ids whose remote execution ends QUERY_STATE_FAILED
    ppc,            \* "idle", or "done": a pipeline call is over
    call,           \* the method called, its job and the environment it met
    outcome,        \* how the call ended and what it did for each table
    \* Concurrent upserts (PgLoader._upsert_data), each on its own connection
    now,              \* int(datetime.now().timestamp())
    upsert_pc,        \* position of each upsert
    upsert_table,     \* table_name of the PgLoader of each upsert
    temp_table_name,  \* temp_table_name of each upsert (NoName: not yet set)
    temp_tables       \* staging tables of the schema: [name, owner]

store_vars == <<db, txn>>
call_vars == <<op, df, uk, before, twice, last, strategy>>
loader_vars == <<db, txn, pc, op, df, uk, before, twice, last, log, exc, strategy>>
extractor_vars == <<clock, xpc, xexc, query, max_wait, payload, submit_time,
                    start_time, polls, response, error, error_msg, result>>
pipeline_vars == <<etl_job, remote_failed, ppc, call, outcome>>
upsert_vars == <<now, upsert_pc, upsert_table, temp_table_name, temp_tables>>
outside_loader == <<extractor_vars, pipeline_vars, upsert_vars>>
outside_extractor == <<loader_vars, pipeline_vars, upsert_vars>>
outside_pipeline == <<loader_vars, extractor_vars, upsert_vars>>
outside_upserts == <<loader_vars, extractor_vars, pipeline_vars>>
vars == <<loader_vars, extractor_vars, pipeline_vars, upsert_vars>>

\* ------------------------------------------------------------------ store
\* INSERT of `rows` (DataFrame.to_sql, if_exists='append').
InsertError(t, rows) ==
    IF t.uniq # {} /\ HasDupKeys(t.rows \o rows, t.uniq)
    THEN "UniqueViolation" ELSE "none"

\* INSERT ... ON CONFLICT (keys) DO UPDATE SET <non-key columns> = EXCLUDED.
UpdateSetColumns(keys) == {c \in ToSet(Columns) : c \notin ToSet(keys)}
UpsertError(t, staged, keys) ==
    IF UpdateSetColumns(keys) = {} THEN "SyntaxError"
    ELSE IF t.uniq # ToSet(keys) THEN "InvalidColumnReference"
    ELSE IF HasDupKeys(staged, ToSet(keys)) THEN "CardinalityViolation"
    ELSE "none"
UpsertRow(rows, r, keys) ==
    IF \E i \in 1..Len(rows) : KeyOf(rows[i], ToSet(keys)) = KeyOf(r, ToSet(keys))
    THEN [i \in 1..Len(rows) |->
            IF KeyOf(rows[i], ToSet(keys)) = KeyOf(r, ToSet(keys))
            THEN [c \in ToSet(Columns) |->
                    IF c \in UpdateSetColumns(keys) THEN r[c] ELSE rows[i][c]]
            ELSE rows[i]]
    ELSE Append(rows, r)
RECURSIVE Upsert(_, _, _)
Upsert(rows, staged, keys) ==
    IF staged = <<>> THEN rows
    ELSE Upsert(UpsertRow(rows, Head(staged), keys), Tail(staged), keys)

\* ------------------------------------------------------------------ PgLoader
\* A statement failed: control goes to the handler of the enclosing try.
Raise(handler, stmt, cause) ==
    /\ pc' = handler
    /\ exc' = cause
    /\ log' = Append(log, stmt)
    /\ UNCHANGED <<db, txn>>

\* The call was not made through DuneToPgWorker.load_to_postgres.
NoStrategy == "none"

\* Entry of PgLoader.load_full_refresh(df).
enter_load_full_refresh(d) ==
    /\ pc = "idle"
    /\ twice' = (last = <<d>>)
    /\ UNCHANGED last
    /\ op' = "load_full_refresh" /\ df' = d /\ uk' = <<>>
    /\ before' = db /\ log' = <<>> /\ exc' = "none"
    /\ pc' = "lfr_schema"
    /\ UNCHANGED <<store_vars, outside_loader>>

load_full_refresh(d) == enter_load_full_refresh(d) /\ strategy' = NoStrategy

\* CREATE SCHEMA IF NOT EXISTS, then connection.commit().
create_schema_if_not_exists(next, handler) ==
    \E how \in {"ok", "execute_fails", "commit_fails"} :
        /\ UNCHANGED <<call_vars, outside_loader>>
        /\ CASE how = "execute_fails" ->
                    Raise(handler, "create_schema", "OperationalError")
             [] how = "commit_fails" ->
                    /\ pc' = handler /\ exc' = "OperationalError"
                    /\ log' = log \o <<"create_schema", "commit">>
                    /\ txn' = [txn EXCEPT !.schema = TRUE]
                    /\ UNCHANGED db
             [] OTHER ->
                    /\ txn' = [txn EXCEPT !.schema = TRUE]
                    /\ db' = txn'
                    /\ log' = log \o <<"create_schema", "commit">>
                    /\ pc' = next
                    /\ UNCHANGED exc

\* SELECT EXISTS (... information_schema.tables ...).
table_exists(if_true, if_false, handler) ==
    \E ok \in BOOLEAN :
        /\ UNCHANGED <<call_vars, outside_loader>>
        /\ IF ~ok THEN Raise(handler, "table_exists", "OperationalError")
           ELSE /\ pc' = IF txn.target.exists THEN if_true ELSE if_false
                /\ log' = Append(log, "table_exists")
                /\ UNCHANGED <<db, txn, exc>>

\* Table(name, metadata, *columns).create(connection.engine, checkfirst=True):
\* plain columns, no primary key and no unique constraint; committed at once
\* on the engine's own connection.
create_table_from_dataframe(next, handler) ==
    \E ok \in BOOLEAN :
        /\ UNCHANGED <<call_vars, outside_loader>>
        /\ IF ~ok THEN Raise(handler, "create_table", "OperationalError")
           ELSE /\ db' = [db EXCEPT !.target = IF @.exists THEN @ ELSE Table(<<>>, {})]
                /\ txn' = [txn EXCEPT !.target = IF @.exists THEN @ ELSE Table(<<>>, {})]
                /\ log' = Append(log, "create_table")
                /\ pc' = next
                /\ UNCHANGED exc

\* df.to_sql(name=table_name, con=connection, if_exists='append').
to_sql_append(next, handler) ==
    \E ok \in BOOLEAN :
        /\ UNCHANGED <<call_vars, outside_loader>>
        /\ LET err == IF ok THEN InsertError(txn.target, df) ELSE "OperationalError"
           IN  IF err # "none" THEN Raise(handler, "insert", err)
               ELSE /\ txn' = [txn EXCEPT !.target.rows = @ \o df]
                    /\ log' = Append(log, "insert")
                    /\ pc' = next
                    /\ UNCHANGED <<db, exc>>

\* connection.commit() as the last statement of a load.
commit_load(handler) ==
    \E ok \in BOOLEAN :
        /\ UNCHANGED <<call_vars, outside_loader>>
        /\ IF ~ok THEN Raise(handler, "commit", "OperationalError")
           ELSE /\ db' = txn
                /\ log' = Append(log, "commit")
                /\ pc' = "returned"
                /\ UNCHANGED <<txn, exc>>

\* Mutant of rollback_and_raise: the handler re-raises without rolling back.
raise_without_rollback ==
    /\ pc' = "raised"
    /\ UNCHANGED <<db, txn, log, exc>>
    /\ UNCHANGED <<call_vars, outside_loader>>

\* except Exception: connection.rollback(); raise
rollback_and_raise ==
    /\ txn' = db
    /\ log' = Append(log, "rollback")
    /\ pc' = "raised"
    /\ UNCHANGED <<db, exc>>
    /\ UNCHANGED <<call_vars, outside_loader>>

lfr_schema == pc = "lfr_schema" /\ create_schema_if_not_exists("lfr_exists", "lfr_except")
lfr_exists == pc = "lfr_exists" /\ table_exists("lfr_truncate", "lfr_create", "lfr_except")
lfr_create == pc = "lfr_create" /\ create_table_from_dataframe("lfr_insert", "lfr_except")

\* Mutant of lfr_truncate: the TRUNCATE is left out.
lfr_truncate_skipped ==
    /\ pc = "lfr_truncate"
    /\ pc' = "lfr_insert"
    /\ UNCHANGED <<db, txn, log, exc>>
    /\ UNCHANGED <<call_vars, outside_loader>>

\* Mutant of lfr_truncate: the TRUNCATE is committed on its own.
lfr_truncate_committed ==
    /\ pc = "lfr_truncate"
    /\ txn' = [txn EXCEPT !.target.rows = <<>>]
    /\ db' = txn'
    /\ log' = log \o <<"truncate", "commit">>
    /\ pc' = "lfr_insert"
    /\ UNCHANGED exc
    /\ UNCHANGED <<call_vars, outside_loader>>

\* connection.execute(text("TRUNCATE TABLE ..."))
lfr_truncate ==
    /\ pc = "lfr_truncate"
    /\ UNCHANGED <<call_vars, outside_loader>>
    /\ \E ok \in BOOLEAN :
        IF ~ok THEN Raise("lfr_except", "truncate", "OperationalError")
        ELSE /\ txn' = [txn EXCEPT !.target.rows = <<>>]
             /\ log' = Append(log, "truncate")
             /\ pc' = "lfr_insert"
             /\ UNCHANGED <<db, exc>>

lfr_insert == pc = "lfr_insert" /\ to_sql_append("lfr_commit", "lfr_except")
lfr_commit == pc = "lfr_commit" /\ commit_load("lfr_except")
lfr_except == pc = "lfr_except" /\ rollback_and_raise

\* Entry of PgLoader.load_incremental(df, unique_keys).
enter_load_incremental(d, k) ==
    /\ pc = "idle"
    /\ twice' = FALSE
    /\ UNCHANGED last
    /\ op' = "load_incremental" /\ df' = d /\ uk' = k
    /\ before' = db /\ log' = <<>> /\ exc' = "none"
    \* if not unique_keys: self.load_full_refresh(df); return
    /\ pc' = IF k = <<>> THEN "lfr_schema" ELSE "li_schema"
    /\ UNCHANGED <<store_vars, outside_loader>>

\* Mutant of load_incremental: no fall-back to load_full_refresh when
\* unique_keys is empty.
load_incremental_without_fallback(d, k) ==
    /\ pc = "idle"
    /\ twice' = FALSE
    /\ UNCHANGED last
    /\ op' = "load_incremental" /\ df' = d /\ uk' = k
    /\ before' = db /\ log' = <<>> /\ exc' = "none"
    /\ pc' = "li_schema"
    /\ strategy' = NoStrategy
    /\ UNCHANGED <<store_vars, outside_loader>>

load_incremental(d, k) == enter_load_incremental(d, k) /\ strategy' = NoStrategy

li_schema == pc = "li_schema" /\ create_schema_if_not_exists("li_exists", "li_except")
li_exists == pc = "li_exists" /\ table_exists("li_stage", "li_create", "li_except")
li_create == pc = "li_create" /\ create_table_from_dataframe("li_insert_new", "li_except")
\* Mutant of li_insert_new: the new table is left empty.
li_insert_new_skipped ==
    /\ pc = "li_insert_new"
    /\ pc' = "li_commit_new"
    /\ UNCHANGED <<db, txn, log, exc>>
    /\ UNCHANGED <<call_vars, outside_loader>>

li_insert_new == pc = "li_insert_new" /\ to_sql_append("li_commit_new", "li_except")
li_commit_new == pc = "li_commit_new" /\ commit_load("li_except")

\* _upsert_data: df.to_sql(name=temp_table_name, if_exists='replace'): a table
\* of that name is dropped, the staging table is created and filled.
upsert_stage ==
    /\ pc = "li_stage"
    /\ UNCHANGED <<call_vars, outside_loader>>
    /\ \E ok \in BOOLEAN :
        IF ~ok THEN Raise("li_except", "stage", "OperationalError")
        ELSE /\ txn' = [txn EXCEPT !.staging = Table(df, {})]
             /\ log' = Append(log, "stage")
             /\ pc' = "li_merge"
             /\ UNCHANGED <<db, exc>>

\* _upsert_data: INSERT INTO target SELECT ... FROM staging ON CONFLICT (...)
\* DO UPDATE SET ...
upsert_merge ==
    /\ pc = "li_merge"
    /\ UNCHANGED <<call_vars, outside_loader>>
    /\ \E ok \in BOOLEAN :
        LET err == IF ok THEN UpsertError(txn.target, txn.staging.rows, uk)
                   ELSE "OperationalError"
        IN  IF err # "none" THEN Raise("li_except", "merge", err)
            ELSE /\ txn' = [txn EXCEPT !.target.rows = Upsert(@, txn.staging.rows, uk)]
                 /\ log' = Append(log, "merge")
                 /\ pc' = "li_drop"
                 /\ UNCHANGED <<db, exc>>

\* Mutant of upsert_drop: the DROP TABLE is left out.
upsert_drop_skipped ==
    /\ pc = "li_drop"
    /\ pc' = "li_commit"
    /\ UNCHANGED <<db, txn, log, exc>>
    /\ UNCHANGED <<call_vars, outside_loader>>

\* _upsert_data: DROP TABLE schema.temp_table_name
upsert_drop ==
    /\ pc = "li_drop"
    /\ UNCHANGED <<call_vars, outside_loader>>
    /\ \E ok \in BOOLEAN :
        IF ~ok THEN Raise("li_except", "drop", "OperationalError")
        ELSE /\ txn' = [txn EXCEPT !.staging = NoTable]
             /\ log' = Append(log, "drop")
             /\ pc' = "li_commit"
             /\ UNCHANGED <<db, exc>>

li_commit == pc = "li_commit" /\ commit_load("li_except")
li_except == pc = "li_except" /\ rollback_and_raise

\* The call is over: control is back in the caller, which may call again.
return_to_caller ==
    /\ pc \in {"returned", "raised"}
    /\ pc' = "idle"
    /\ last' = IF pc = "returned" /\ op = "load_full_refresh" THEN <<df>> ELSE <<>>
    /\ op' = "none" /\ df' = <<>> /\ uk' = <<>>
    /\ before' = db /\ twice' = FALSE /\ log' = <<>> /\ exc' = "none"
    /\ strategy' = NoStrategy
    /\ UNCHANGED <<store_vars, outside_loader>>

\* arguments.py: FULL_REFRESH = arguments.full_refresh, the store_true flag
\* --full-refresh (Python's True or False).
FullRefreshFlags == {"True", "False"}
\* load_strategy arguments of load_to_postgres: FULL_REFRESH, or
\* INCREMENTAL_VALUE, which is None when --incremental-value is not given.
LoadStrategies == FullRefreshFlags \cup {NoneValue}

\* DuneToPgWorker.load_to_postgres(data, source_unique_keys, load_strategy):
\* no data: return at once; else pd.DataFrame(data) (the records of data, in
\* order, with their columns) goes to load_full_refresh when load_strategy ==
\* FULL_REFRESH and to load_incremental otherwise.  The except of
\* load_to_postgres logs and re-raises.
load_to_postgres(data, keys, load_strategy, full_refresh) ==
    /\ pc = "idle"
    /\ strategy' = IF load_strategy = full_refresh THEN "full_refresh"
                   ELSE "incremental"
    /\ IF data = <<>>
       THEN /\ pc' = "returned"
            /\ op' = "load_to_postgres" /\ df' = data /\ uk' = keys
            /\ before' = db /\ log' = <<>> /\ exc' = "none"
            /\ twice' = FALSE
            /\ UNCHANGED last
            /\ UNCHANGED <<store_vars, outside_loader>>
       ELSE IF load_strategy = full_refresh
       THEN enter_load_full_refresh(data)
       ELSE enter_load_incremental(data, keys)

LoaderInit ==
    /\ db \in InitialStores
    /\ txn = db
    /\ pc = "idle"
    /\ op = "none" /\ df = <<>> /\ uk = <<>>
    /\ before = db
    /\ twice = FALSE
    /\ last = <<>>
    /\ log = <<>>
    /\ exc = "none"
    /\ strategy = NoStrategy

LoaderNext ==
    \/ \E d \in RowSets : load_full_refresh(d)
    \/ lfr_schema
    \/ lfr_exists
    \/ lfr_create
    \/ lfr_truncate
    \/ lfr_insert
    \/ lfr_commit
    \/ lfr_except
    \/ \E d \in RowSets, k \in UniqueKeyChoices : load_incremental(d, k)
    \/ li_schema
    \/ li_exists
    \/ li_create
    \/ li_insert_new
    \/ li_commit_new
    \/ upsert_stage
    \/ upsert_merge
    \/ upsert_drop
    \/ li_commit
    \/ li_except
    \/ return_to_caller

\* ------------------------------------------------------------------ DuneExtractor
\* Longest duration of one HTTP request, in seconds.
MaxLatency == 2
\* get_results(execution_id, max_wait_time=300); DuneExtractor(poll_interval=5)
DefaultMaxWaitTime == 300
DefaultPollInterval == 5
poll_interval == DefaultPollInterval
MaxWaitChoices == {0, 2 * DefaultPollInterval, DefaultMaxWaitTime}
QueryIds == {42}
\* query_parameters of fetch: None or a string.
QueryParameters == {NoneValue, "", "0", "1"}
\* States a status response may carry; NoneValue: the response has no state.
NonTerminalStates == {"QUERY_STATE_PENDING", "QUERY_STATE_EXECUTING", NoneValue}
ResponseStates ==
    NonTerminalStates \cup {"QUERY_STATE_COMPLETED", "QUERY_STATE_FAILED"}
HttpOutcomes == {"ok", "HTTPError"}
\* Rows a completed execution may carry.
ResultRows == {<<>>, <<[id |-> 1, date |-> 0]>>}

\* bool(parameters) of Python for None and strings.
Truthy(p) == p # NoneValue /\ p # ""

\* DuneToPgWorker.fetch(query_id, query_parameters, max_wait_time)
fetch(q, p, w) ==
    /\ xpc = "idle"
    /\ xpc' = "execute_query"
    /\ query' = [id |-> q, parameters |-> p]
    /\ max_wait' = w
    /\ clock' = 0 /\ submit_time' = 0 /\ start_time' = 0 /\ polls' = 0
    /\ payload' = <<>> /\ response' = "none" /\ result' = <<>> /\ xexc' = "none"
    /\ error' = NoneValue /\ error_msg' = NoneValue
    /\ UNCHANGED outside_extractor

\* The POST of execute_query: it takes `lat` seconds and raise_for_status
\* raises on a non-2xx answer.
execute_query ==
    /\ xpc = "execute_query"
    /\ \E lat \in 0..MaxLatency, http \in HttpOutcomes :
        /\ submit_time' = clock
        /\ clock' = clock + lat
        /\ payload' = IF Truthy(query.parameters)
                      THEN <<[date |-> query.parameters]>> ELSE <<>>
        /\ IF http = "ok"
           THEN xpc' = "get_results" /\ UNCHANGED xexc
           ELSE xpc' = "fetch_except" /\ xexc' = "HTTPError"
    /\ UNCHANGED <<query, max_wait, start_time, polls, response, result>>
    /\ UNCHANGED <<error, error_msg>>
    /\ UNCHANGED outside_extractor

\* get_results: start_time = time.time()
get_results ==
    /\ xpc = "get_results"
    /\ start_time' = clock
    /\ xpc' = "check_timeout"
    /\ UNCHANGED <<clock, xexc, query, max_wait, payload, submit_time, polls,
                   response, result>>
    /\ UNCHANGED <<error, error_msg>>
    /\ UNCHANGED outside_extractor

\* Mutant of TimedOut: the loop allows one more poll interval.
TimedOut_lenient == clock - start_time > max_wait + poll_interval

\* if time.time() - start_time > max_wait_time: raise TimeoutError
TimedOut == clock - start_time > max_wait
check_timeout ==
    /\ xpc = "check_timeout"
    /\ IF TimedOut
       THEN xpc' = "fetch_except" /\ xexc' = "TimeoutError"
       ELSE xpc' = "status_request" /\ UNCHANGED xexc
    /\ UNCHANGED <<clock, query, max_wait, payload, submit_time, start_time,
                   polls, response, result>>
    /\ UNCHANGED <<error, error_msg>>
    /\ UNCHANGED outside_extractor

\* The field 'error' of a failed execution's response; NoneValue: missing.
RemoteErrors == {NoneValue, "syntax error"}
\* data.get('error', 'Unknown error')
ErrorMessage(err) == IF err = NoneValue THEN "Unknown error" ELSE err

\* Mutant of status_request: a failed execution is polled again.
status_request_retrying ==
    /\ xpc = "status_request"
    /\ polls' = polls + 1
    /\ \E lat \in 0..MaxLatency, http \in HttpOutcomes, st \in ResponseStates :
        /\ clock' = clock + lat
        /\ IF http # "ok"
           THEN /\ xpc' = "fetch_except" /\ xexc' = "HTTPError"
                /\ UNCHANGED <<response, error, error_msg, result>>
           ELSE /\ response' = st
                /\ CASE st = "QUERY_STATE_COMPLETED" ->
                          /\ xpc' = "fetch_return" /\ error' = NoneValue
                          /\ \E rows \in ResultRows : result' = rows
                          /\ UNCHANGED <<xexc, error_msg>>
                     [] st = "QUERY_STATE_FAILED" ->
                          /\ xpc' = "sleep"
                          /\ \E err \in RemoteErrors : error' = err
                          /\ UNCHANGED <<xexc, error_msg, result>>
                     [] OTHER ->
                          /\ xpc' = "sleep" /\ error' = NoneValue
                          /\ UNCHANGED <<xexc, error_msg, result>>
    /\ UNCHANGED <<query, max_wait, payload, submit_time, start_time>>
    /\ UNCHANGED outside_extractor

\* Mutant of status_request: after a non-2xx answer the loop polls again.
status_request_ignoring_status ==
    /\ xpc = "status_request"
    /\ polls' = polls + 1
    /\ \E lat \in 0..MaxLatency, http \in HttpOutcomes, st \in ResponseStates :
        /\ clock' = clock + lat
        /\ IF http # "ok"
           THEN /\ xpc' = "sleep" /\ xexc' = "HTTPError"
                /\ UNCHANGED <<response, error, error_msg, result>>
           ELSE /\ response' = st
                /\ CASE st = "QUERY_STATE_COMPLETED" ->
                          /\ xpc' = "fetch_return" /\ error' = NoneValue
                          /\ \E rows \in ResultRows : result' = rows
                          /\ UNCHANGED <<xexc, error_msg>>
                     [] st = "QUERY_STATE_FAILED" ->
                          /\ xpc' = "fetch_except" /\ xexc' = "RuntimeError"
                          /\ \E err \in RemoteErrors :
                                error' = err /\ error_msg' = ErrorMessage(err)
                          /\ UNCHANGED result
                     [] OTHER ->
                          /\ xpc' = "sleep" /\ error' = NoneValue
                          /\ UNCHANGED <<xexc, error_msg, result>>
    /\ UNCHANGED <<query, max_wait, payload, submit_time, start_time>>
    /\ UNCHANGED outside_extractor

\* requests.get(results_url), raise_for_status, and the dispatch on the state.
status_request ==
    /\ xpc = "status_request"
    /\ polls' = polls + 1
    /\ \E lat \in 0..MaxLatency, http \in HttpOutcomes, st \in ResponseStates :
        /\ clock' = clock + lat
        /\ IF http # "ok"
           THEN /\ xpc' = "fetch_except" /\ xexc' = "HTTPError"
                /\ UNCHANGED <<response, error, error_msg, result>>
           ELSE /\ response' = st
                /\ CASE st = "QUERY_STATE_COMPLETED" ->
                          /\ xpc' = "fetch_return" /\ error' = NoneValue
                          /\ \E rows \in ResultRows : result' = rows
                          /\ UNCHANGED <<xexc, error_msg>>
                     [] st = "QUERY_STATE_FAILED" ->
                          /\ xpc' = "fetch_except" /\ xexc' = "RuntimeError"
                          /\ \E err \in RemoteErrors :
                                error' = err /\ error_msg' = ErrorMessage(err)
                          /\ UNCHANGED result
                     [] OTHER ->
                          /\ xpc' = "sleep" /\ error' = NoneValue
                          /\ UNCHANGED <<xexc, error_msg, result>>
    /\ UNCHANGED <<query, max_wait, payload, submit_time, start_time>>
    /\ UNCHANGED outside_extractor

\* Mutant of sleep: the loop waits two poll intervals.
sleep_twice ==
    /\ xpc = "sleep"
    /\ clock' = clock + 2 * poll_interval
    /\ xpc' = "check_timeout"
    /\ UNCHANGED <<xexc, query, max_wait, payload, submit_time, start_time,
                   polls, response, result>>
    /\ UNCHANGED <<error, error_msg>>
    /\ UNCHANGED outside_extractor

\* Mutant of sleep: the wait between two polls never ends.
sleep_forever ==
    /\ xpc = "sleep"
    /\ UNCHANGED extractor_vars
    /\ UNCHANGED outside_extractor

\* time.sleep(self.poll_interval)
sleep ==
    /\ xpc = "sleep"
    /\ clock' = clock + poll_interval
    /\ xpc' = "check_timeout"
    /\ UNCHANGED <<xexc, query, max_wait, payload, submit_time, start_time,
                   polls, response, result>>
    /\ UNCHANGED <<error, error_msg>>
    /\ UNCHANGED outside_extractor

\* fetch: return raw_data
fetch_return ==
    /\ xpc = "fetch_return"
    /\ xpc' = "returned"
    /\ UNCHANGED <<clock, xexc, query, max_wait, payload, submit_time,
                   start_time, polls, response, result>>
    /\ UNCHANGED <<error, error_msg>>
    /\ UNCHANGED outside_extractor

\* fetch: except Exception: logger.error(...); raise
fetch_except ==
    /\ xpc = "fetch_except"
    /\ xpc' = "raised"
    /\ UNCHANGED <<clock, xexc, query, max_wait, payload, submit_time,
                   start_time, polls, response, result>>
    /\ UNCHANGED <<error, error_msg>>
    /\ UNCHANGED outside_extractor

\* The caller has the result of fetch and may call again.
fetch_done ==
    /\ xpc \in {"returned", "raised"}
    /\ xpc' = "idle"
    /\ clock' = 0 /\ submit_time' = 0 /\ start_time' = 0 /\ polls' = 0
    /\ query' = [id |-> 42, parameters |-> NoneValue] /\ max_wait' = 0
    /\ payload' = <<>> /\ response' = "none" /\ result' = <<>> /\ xexc' = "none"
    /\ error' = NoneValue /\ error_msg' = NoneValue
    /\ UNCHANGED outside_extractor

ExtractorIdle ==
    /\ xpc = "idle"
    /\ clock = 0 /\ submit_time = 0 /\ start_time = 0 /\ polls = 0
    /\ query = [id |-> 42, parameters |-> NoneValue] /\ max_wait = 0
    /\ payload = <<>> /\ response = "none" /\ result = <<>> /\ xexc = "none"
    /\ error = NoneValue /\ error_msg = NoneValue

ExtractorNext ==
    \/ \E q \in QueryIds, p \in QueryParameters, w \in MaxWaitChoices : fetch(q, p, w)
    \/ execute_query
    \/ get_results
    \/ check_timeout
    \/ status_request
    \/ sleep
    \/ fetch_return
    \/ fetch_except
    \/ fetch_done

\* Loads through DuneToPgWorker.load_to_postgres, and direct full-refresh
\* loads.
WorkerNext ==
    \/ \E data \in RowSets, keys \in UniqueKeyChoices,
          load_strategy \in LoadStrategies, full_refresh \in FullRefreshFlags :
            load_to_postgres(data, keys, load_strategy, full_refresh)
    \/ \E d \in RowSets : load_full_refresh(d)
    \/ lfr_schema
    \/ lfr_exists
    \/ lfr_create
    \/ lfr_truncate
    \/ lfr_insert
    \/ lfr_commit
    \/ lfr_except
    \/ li_schema
    \/ li_exists
    \/ li_create
    \/ li_insert_new
    \/ li_commit_new
    \/ upsert_stage
    \/ upsert_merge
    \/ upsert_drop
    \/ li_commit
    \/ li_except
    \/ return_to_caller

\* The store when no load runs: an empty schema.
LoaderIdle ==
    /\ db = [schema |-> TRUE, target |-> NoTable, staging |-> NoTable]
    /\ txn = db
    /\ pc = "idle"
    /\ op = "none" /\ df = <<>> /\ uk = <<>>
    /\ before = db
    /\ twice = FALSE
    /\ last = <<>>
    /\ log = <<>>
    /\ exc = "none"
    /\ strategy = NoStrategy

\* ------------------------------------------------------------------ DuneBitcoinPipeline
\* Largest number of active rows of the control table.
MaxJobs == 3
\* The target table of the store model is bitcoin.prices; the other tables
\* of the control table do not exist yet.
TargetTableName == "prices"
TableOf(store, name) == IF name = TargetTableName THEN store.target ELSE NoTable
Jobs == {[name |-> "prices", id |-> 42],
         [name |-> "blocks", id |-> 43]}
ControlTables == UNION {[1..n -> Jobs] : n \in 0..MaxJobs}
IncrementalColumns == {"date", "updated_at"}
\* Stores a sync job may find: no table, an empty table, tables whose largest
\* date is 0 and 1 (the tables are the engine's: no constraint).
WatermarkStores ==
    {[schema |-> TRUE, target |-> t, staging |-> NoTable] :
        t \in {NoTable, Table(<<>>, {}), Table(<<[id |-> 1, date |-> 0]>>, {}),
               Table(<<[id |-> 1, date |-> 0], [id |-> 2, date |-> 1]>>, {})}}
\* What reading the control table may meet.
ControlTableOutcomes == {"ok", "connect_fails", "query_fails"}

\* Results of a Python call.
Raised(e) == [kind |-> "raise", exc |-> e, value |-> <<>>]
Returned(v) == [kind |-> "return", exc |-> "none", value |-> v]
\* Python values: None, a DataFrame built from a list of dicts, a dict, a str.
PyNone == [type |-> "NoneType"]
DataFrame(records) ==
    [type |-> "DataFrame", records |-> records,
     columns |-> IF records = <<>> THEN <<>>
                 ELSE <<"name", "id", "target_table", "p_key">>]
PyStr(t) == [type |-> "str", text |-> t]
PyDict(f) == [type |-> "dict", fields |-> f]
\* for x in v: a DataFrame yields its column labels.
PyIter(v) ==
    IF v.type = "DataFrame" THEN [i \in 1..Len(v.columns) |-> PyStr(v.columns[i])]
    ELSE v.items
\* d.get(key, default)
DictGet(d, key, default) ==
    IF key \in DOMAIN d.fields THEN d.fields[key] ELSE default

\* def get_tables_to_sync(): no parameter.
GetTablesToSyncParameters == 0
\* get_tables_to_sync(table_meta_data): one argument.
RunPipelineCallArguments == 1
\* psycopg2.connect is outside the try; a psycopg2.Error of the query is
\* printed and None is returned.
get_tables_to_sync(nargs, env, control) ==
    IF nargs # GetTablesToSyncParameters THEN Raised("TypeError")
    ELSE IF env = "connect_fails" THEN Raised("OperationalError")
    ELSE IF env = "query_fails" THEN Returned(PyNone)
    ELSE Returned(DataFrame(control))

\* Methods of class DuneToPgWorker and the parameters of fetch.
DuneToPgWorkerMethods == {"fetch", "load_to_postgres"}
FetchParameters == {"query_id", "query_parameters", "max_wait_time"}
\* Keyword arguments sync_table_incremental passes to fetch.
FetchCallKeywords ==
    {"query_id", "query_parameters", "source_unique_keys", "incremental_column",
     "incremental_value", "load_strategy", "max_wait_time"}

\* The watermark lookup of a sync job: not made, raised, or returned a value
\* (<<>> is None).
NoLookup == [lookup |-> "none", value |-> <<>>]
LookupRaised == [lookup |-> "raised", value |-> <<>>]
LookupReturned(v) == [lookup |-> "returned", value |-> v]

\* What a sync job did: the calls it made in order, its watermark lookup, the
\* query parameters it submitted, the loads it ran and the exception it raised.
JobResult(name, calls, watermark, submitted, loads, e) ==
    [table |-> name, calls |-> calls, watermark |-> watermark,
     submitted |-> submitted, loads |-> loads, exc |-> e]

\* PgLoader.get_max_value(column_name)
MaxOf(S) == CHOOSE m \in S : \A x \in S : x <= m
get_max_value(store, name, column, fault) ==
    IF fault THEN Raised("OperationalError")
    ELSE IF ~TableOf(store, name).exists THEN Returned(<<>>)
    ELSE IF column \notin ToSet(Columns) THEN Raised("UndefinedColumn")
    ELSE IF TableOf(store, name).rows = <<>> THEN Returned(<<>>)
    ELSE Returned(<<MaxOf({TableOf(store, name).rows[i][column] :
                            i \in 1..Len(TableOf(store, name).rows)})>>)

\* sync_table_full_refresh: self.dune_to_pg_worker.run(...) inside try,
\* except Exception: log and raise.  `trail` are the calls made before.
sync_table_full_refresh(job, trail, watermark, failed) ==
    IF "run" \notin DuneToPgWorkerMethods
    THEN JobResult(job.name, trail \o <<"sync_table_full_refresh">>, watermark,
                   <<>>, <<>>, "AttributeError")
    ELSE JobResult(job.name,
                   trail \o <<"sync_table_full_refresh", "DuneToPgWorker.run">>,
                   watermark, <<NoneValue>>, <<"load_full_refresh">>,
                   IF job.id \in failed THEN "RuntimeError" ELSE "none")

\* Mutant of NoPreviousData: the test for an absent watermark never holds.
NoPreviousData_never(last_value) == FALSE

\* if last_value is None
NoPreviousData(last_value) == last_value = <<>>

\* str(last_value) if last_value else None
WatermarkParameter(last_value) ==
    IF last_value # <<>> /\ last_value[1] # 0 THEN <<last_value[1]>> ELSE <<>>

\* sync_table_incremental
sync_table_incremental(job, column, store, fault, failed) ==
    LET mv == get_max_value(store, job.name, column, fault)
        trail == <<"sync_table_incremental", "get_max_value">>
    IN  IF mv.kind = "raise"
        THEN JobResult(job.name, trail, LookupRaised, <<>>, <<>>, mv.exc)
        ELSE IF NoPreviousData(mv.value)
        THEN sync_table_full_refresh(job, trail, LookupReturned(mv.value), failed)
        ELSE IF ~(FetchCallKeywords \subseteq FetchParameters)
        THEN JobResult(job.name, trail \o <<"DuneToPgWorker.fetch">>,
                       LookupReturned(mv.value),
                       <<>>, <<>>, "TypeError")
        ELSE JobResult(job.name, trail \o <<"DuneToPgWorker.fetch">>,
                       LookupReturned(mv.value),
                       <<WatermarkParameter(mv.value)>>, <<>>,
                       IF job.id \in failed THEN "RuntimeError" ELSE "none")

\* One iteration of the loop of run_pipeline on a dict: the inner try.
process_table(table, store, fault, failed) ==
    LET job == [name |-> DictGet(table, "name", NoneValue),
                id |-> DictGet(table, "id", NoneValue)]
        sync_type == DictGet(table, "sync_type", NoneValue)
        column == DictGet(table, "incremental_column", "updated_at")
    IN  IF sync_type = "full_refresh"
        THEN sync_table_full_refresh(job, <<>>, NoLookup, failed)
        ELSE IF sync_type = NoneValue \/ sync_type = "sync_incremental"
        THEN sync_table_incremental(job, column, store, fault, failed)
        ELSE JobResult(job.name, <<>>, NoLookup, <<>>, <<>>, "ValueError")

PipelineOutcome(status, e, jobs) ==
    [status |-> status, exc |-> e, value |-> NoneValue, jobs |-> jobs]

\* Mutant of run_loop: the exception of a job leaves the loop.
RECURSIVE run_loop_stopping(_, _, _, _, _)
run_loop_stopping(items, store, fault, failed, done) ==
    IF items = <<>> THEN PipelineOutcome("returned", "none", done)
    ELSE IF Head(items).type # "dict"
    THEN PipelineOutcome("raised", "AttributeError", done)
    ELSE LET r == process_table(Head(items), store, fault, failed)
         IN  IF r.exc # "none"
             THEN PipelineOutcome("raised", r.exc, Append(done, r))
             ELSE run_loop_stopping(Tail(items), store, fault, failed,
                                    Append(done, r))

\* for table in tables_to_sync: table.get(...) is outside the inner try;
\* the inner except Exception logs and continues.
RECURSIVE run_loop(_, _, _, _, _)
run_loop(items, store, fault, failed, done) ==
    IF items = <<>> THEN PipelineOutcome("returned", "none", done)
    ELSE IF Head(items).type # "dict"
    THEN PipelineOutcome("raised", "AttributeError", done)
    ELSE run_loop(Tail(items), store, fault, failed,
                  Append(done, process_table(Head(items), store, fault, failed)))

\* Mutant of run_pipeline_outcome: a failed retrieval of the descriptors is
\* taken for an empty list.
run_pipeline_outcome_swallowing(env, fault, control, store, failed) ==
    LET r == get_tables_to_sync(RunPipelineCallArguments, env, control)
    IN  IF r.kind = "raise" \/ r.value.type = "NoneType"
        THEN PipelineOutcome("returned", "none", <<>>)
        ELSE run_loop(PyIter(r.value), store, fault, failed, <<>>)

\* run_pipeline: the outer try; except Exception: log and raise.
run_pipeline_outcome(env, fault, control, store, failed) ==
    LET r == get_tables_to_sync(RunPipelineCallArguments, env, control)
    IN  IF r.kind = "raise" THEN PipelineOutcome("raised", r.exc, <<>>)
        ELSE IF r.value.type = "NoneType"
        THEN PipelineOutcome("raised", "TypeError", <<>>)
        ELSE run_loop(PyIter(r.value), store, fault, failed, <<>>)

NoJob == [name |-> NoneValue, id |-> 0]

\* pipeline.run_pipeline(table_meta_data)
run_pipeline ==
    /\ ppc = "idle"
    /\ \E env \in ControlTableOutcomes, fault \in BOOLEAN :
        /\ call' = [entry |-> "run_pipeline", job |-> NoJob,
                    column |-> NoneValue, env |-> env, fault |-> fault,
                    sync_types |-> <<>>]
        /\ outcome' = run_pipeline_outcome(env, fault, etl_job, db, remote_failed)
    /\ ppc' = "done"
    /\ UNCHANGED <<etl_job, remote_failed>>
    /\ UNCHANGED outside_pipeline

\* pipeline.sync_table_full_refresh(table_name, query_id)
call_sync_table_full_refresh ==
    /\ ppc = "idle"
    /\ \E job \in Jobs :
        /\ call' = [entry |-> "sync_table_full_refresh", job |-> job,
                    column |-> NoneValue, env |-> "ok", fault |-> FALSE,
                    sync_types |-> <<>>]
        /\ LET r == sync_table_full_refresh(job, <<>>, NoLookup, remote_failed)
           IN  outcome' = PipelineOutcome(IF r.exc = "none" THEN "returned" ELSE "raised",
                                          r.exc, <<r>>)
    /\ ppc' = "done"
    /\ UNCHANGED <<etl_job, remote_failed>>
    /\ UNCHANGED outside_pipeline

\* pipeline.sync_table_incremental(table_name, query_id, incremental_column)
call_sync_table_incremental ==
    /\ ppc = "idle"
    /\ \E job \in Jobs, column \in IncrementalColumns, fault \in BOOLEAN :
        /\ call' = [entry |-> "sync_table_incremental", job |-> job,
                    column |-> column, env |-> "ok", fault |-> fault,
                    sync_types |-> <<>>]
        /\ LET r == sync_table_incremental(job, column, db, fault, remote_failed)
           IN  outcome' = PipelineOutcome(IF r.exc = "none" THEN "returned" ELSE "raised",
                                          r.exc, <<r>>)
    /\ ppc' = "done"
    /\ UNCHANGED <<etl_job, remote_failed>>
    /\ UNCHANGED outside_pipeline

\* Values of the key sync_type of a descriptor; NoneValue: the key is missing.
SyncTypes ==
    {NoneValue, "full_refresh", "incremental", "sync_incremental", "snapshot"}
\* The dict of a descriptor: a row of the control table, with the key
\* sync_type when one is given.
Descriptor(job, sync_type) ==
    PyDict(IF sync_type = NoneValue
           THEN [name |-> job.name, id |-> job.id]
           ELSE [name |-> job.name, id |-> job.id, sync_type |-> sync_type])

\* The loop of run_pipeline (for table in tables_to_sync) on a list of
\* descriptor dicts: the rows of the control table, each with a sync_type.
for_table_in_tables_to_sync ==
    /\ ppc = "idle"
    /\ \E types \in [1..Len(etl_job) -> SyncTypes], fault \in BOOLEAN :
        /\ call' = [entry |-> "for_table_in_tables_to_sync", job |-> NoJob,
                    column |-> NoneValue, env |-> "ok", fault |-> fault,
                    sync_types |-> types]
        /\ outcome' = run_loop([i \in 1..Len(etl_job) |->
                                    Descriptor(etl_job[i], types[i])],
                               db, fault, remote_failed, <<>>)
    /\ ppc' = "done"
    /\ UNCHANGED <<etl_job, remote_failed>>
    /\ UNCHANGED outside_pipeline

NoCall == [entry |-> "none", job |-> NoJob, column |-> NoneValue,
           env |-> "ok", fault |-> FALSE, sync_types |-> <<>>]

\* The caller has the result and may call again.
pipeline_done ==
    /\ ppc = "done"
    /\ ppc' = "idle"
    /\ call' = NoCall
    /\ outcome' = PipelineOutcome("none", "none", <<>>)
    /\ UNCHANGED <<etl_job, remote_failed>>
    /\ UNCHANGED outside_pipeline

PipelineIdle ==
    /\ etl_job = <<>> /\ remote_failed = {}
    /\ ppc = "idle" /\ call = NoCall
    /\ outcome = PipelineOutcome("none", "none", <<>>)

PipelineInit ==
    /\ etl_job \in ControlTables
    /\ remote_failed \in SUBSET {j.id : j \in Jobs}
    /\ ppc = "idle" /\ call = NoCall
    /\ outcome = PipelineOutcome("none", "none", <<>>)

PipelineNext ==
    \/ run_pipeline
    \/ call_sync_table_full_refresh
    \/ call_sync_table_incremental
    \/ for_table_in_tables_to_sync
    \/ pipeline_done

\* The store a pipeline call finds.
LoaderAt(stores) ==
    /\ db \in stores
    /\ txn = db
    /\ pc = "idle"
    /\ op = "none" /\ df = <<>> /\ uk = <<>>
    /\ before = db
    /\ twice = FALSE
    /\ last = <<>>
    /\ log = <<>>
    /\ exc = "none"
    /\ strategy = NoStrategy

\* ------------------------------------------------------------------ concurrent upserts
\* Last clock second of a behaviour.
MaxSeconds == 2
\* Two load_incremental calls, each with its own PgLoader, connection and
\* transaction.
Loaders == {"a", "b"}
TableNames == {"prices", "blocks"}
NoName == <<>>
\* f"temp_{self.table_name}_{int(datetime.now().timestamp())}"
TempTableName(table, second) == <<"temp", table, second>>

\* load_incremental on an existing table reaches _upsert_data.
upsert_data(p, t) ==
    /\ upsert_pc[p] = "idle"
    /\ upsert_pc' = [upsert_pc EXCEPT ![p] = "name"]
    /\ upsert_table' = [upsert_table EXCEPT ![p] = t]
    /\ UNCHANGED <<now, temp_table_name, temp_tables>>
    /\ UNCHANGED outside_upserts

\* temp_table_name = f"temp_{table_name}_{int(timestamp)}"
upsert_name(p) ==
    /\ upsert_pc[p] = "name"
    /\ temp_table_name' =
            [temp_table_name EXCEPT ![p] = TempTableName(upsert_table[p], now)]
    /\ upsert_pc' = [upsert_pc EXCEPT ![p] = "stage"]
    /\ UNCHANGED <<now, upsert_table, temp_tables>>
    /\ UNCHANGED outside_upserts

\* df.to_sql(name=temp_table_name, if_exists='replace') in the transaction of
\* p.  PostgreSQL makes the CREATE TABLE wait while another transaction
\* holds an uncommitted table of that name.
upsert_to_sql(p) ==
    /\ upsert_pc[p] = "stage"
    /\ ~\E x \in temp_tables : x.name = temp_table_name[p] /\ x.owner # p
    /\ temp_tables' = temp_tables \cup {[name |-> temp_table_name[p], owner |-> p]}
    /\ upsert_pc' = [upsert_pc EXCEPT ![p] = "merge"]
    /\ UNCHANGED <<now, upsert_table, temp_table_name>>
    /\ UNCHANGED outside_upserts

\* INSERT INTO target SELECT ... FROM staging ON CONFLICT ...
upsert_execute(p) ==
    /\ upsert_pc[p] = "merge"
    /\ upsert_pc' = [upsert_pc EXCEPT ![p] = "drop"]
    /\ UNCHANGED <<now, upsert_table, temp_table_name, temp_tables>>
    /\ UNCHANGED outside_upserts

\* DROP TABLE schema.temp_table_name
upsert_drop_table(p) ==
    /\ upsert_pc[p] = "drop"
    /\ temp_tables' = temp_tables \ {[name |-> temp_table_name[p], owner |-> p]}
    /\ upsert_pc' = [upsert_pc EXCEPT ![p] = "end"]
    /\ UNCHANGED <<now, upsert_table, temp_table_name>>
    /\ UNCHANGED outside_upserts

\* load_incremental ends: commit after the drop, or rollback after a failed
\* statement; either way no staging table of p is left.
upsert_end(p) ==
    /\ upsert_pc[p] \in {"stage", "merge", "drop", "end"}
    /\ temp_tables' = {x \in temp_tables : x.owner # p}
    /\ upsert_pc' = [upsert_pc EXCEPT ![p] = "idle"]
    /\ temp_table_name' = [temp_table_name EXCEPT ![p] = NoName]
    /\ UNCHANGED <<now, upsert_table>>
    /\ UNCHANGED outside_upserts

\* A second passes.
tick ==
    /\ now < MaxSeconds
    /\ now' = now + 1
    /\ UNCHANGED <<upsert_pc, upsert_table, temp_table_name, temp_tables>>
    /\ UNCHANGED outside_upserts

UpsertsIdle ==
    /\ now = 0
    /\ upsert_pc = [p \in Loaders |-> "idle"]
    /\ upsert_table = [p \in Loaders |-> "prices"]
    /\ temp_table_name = [p \in Loaders |-> NoName]
    /\ temp_tables = {}

UpsertsNext ==
    \/ \E p \in Loaders, t \in TableNames : upsert_data(p, t)
    \/ \E p \in Loaders : upsert_name(p)
    \/ \E p \in Loaders : upsert_to_sql(p)
    \/ \E p \in Loaders : upsert_execute(p)
    \/ \E p \in Loaders : upsert_drop_table(p)
    \/ \E p \in Loaders : upsert_end(p)
    \/ tick

\* ------------------------------------------------------------------ specifications
\* Spec: calls of PgLoader.  SpecExtractor: calls of DuneToPgWorker.fetch.
\* SpecPipeline: calls of DuneBitcoinPipeline.  SpecWorker: loads through
\* DuneToPgWorker.load_to_postgres.
Init == LoaderInit /\ ExtractorIdle /\ PipelineIdle /\ UpsertsIdle
Next == LoaderNext
Spec == Init /\ [][Next]_vars

InitExtractor == LoaderIdle /\ ExtractorIdle /\ PipelineIdle /\ UpsertsIdle
SpecExtractor == InitExtractor /\ [][ExtractorNext]_vars

\* A running fetch goes on: every HTTP request returns, time.sleep returns,
\* and the interpreter executes the next statement.
ExtractorFairness ==
    /\ WF_vars(execute_query)
    /\ WF_vars(get_results)
    /\ WF_vars(check_timeout)
    /\ WF_vars(status_request)
    /\ WF_vars(sleep)
    /\ WF_vars(fetch_return)
    /\ WF_vars(fetch_except)
\* Calls of fetch with a max_wait_time of a few poll intervals.
ShortWaitChoices == {0, DefaultPollInterval, 2 * DefaultPollInterval}
ShortFetchNext ==
    \/ \E q \in QueryIds, p \in QueryParameters, w \in ShortWaitChoices : fetch(q, p, w)
    \/ execute_query
    \/ get_results
    \/ check_timeout
    \/ status_request
    \/ sleep
    \/ fetch_return
    \/ fetch_except
    \/ fetch_done
SpecExtractorFair ==
    InitExtractor /\ [][ShortFetchNext]_vars /\ ExtractorFairness

SpecWorker == Init /\ [][WorkerNext]_vars

\* SpecUpserts: two concurrent upserts.
SpecUpserts == InitExtractor /\ [][UpsertsNext]_vars

InitPipeline ==
    LoaderAt(WatermarkStores) /\ ExtractorIdle /\ PipelineInit /\ UpsertsIdle
SpecPipeline == InitPipeline /\ [][PipelineNext]_vars

\* ------------------------------------------------------------------ claims
Done == pc \in {"returned", "raised"}
Count(s, x) == Cardinality({i \in 1..Len(s) : s[i] = x})
Logged(x) == \E i \in 1..Len(log) : log[i] = x
\* The store raised no error of its own in the call.
NoStoreFault == exc # "OperationalError"
NewKeys(rows, staged, keys) ==
    {KeyOf(staged[i], keys) : i \in 1..Len(staged)}
        \ {KeyOf(rows[i], keys) : i \in 1..Len(rows)}

\* C4 (as claimed): on an existing target table that the engine created
\* (create_table_from_dataframe: no unique constraint) and whose rows have
\* distinct keys, load_incremental of a RowSet with distinct keys, some
\* matching and some new, succeeds when the store raises no fault of its own;
\* matching rows are updated in place, new rows appended, and the row count is
\* the previous count plus the number of new keys.
C4_UpsertOnEngineTable ==
    ( /\ Done /\ op = "load_incremental" /\ uk = <<"id">> /\ NoStoreFault
      /\ before.target.exists /\ before.target.uniq = {}
      /\ ~HasDupKeys(before.target.rows, {"id"}) /\ ~HasDupKeys(df, {"id"})
      /\ NewKeys(before.target.rows, df, {"id"}) # {}
      /\ \E i \in 1..Len(df), j \in 1..Len(before.target.rows) :
            df[i].id = before.target.rows[j].id )
    => /\ pc = "returned"
       /\ db.target.rows = Upsert(before.target.rows, df, uk)
       /\ Len(db.target.rows) = Len(before.target.rows)
                + Cardinality(NewKeys(before.target.rows, df, {"id"}))

\* C5: after a successful load_full_refresh of a non-empty RowSet the target
\* table holds exactly the rows of the RowSet, each once, and when the call
\* repeats the previous successful load_full_refresh of the same RowSet the
\* committed store is the one the first call left.
C5_FullRefreshIdempotent ==
    (pc = "returned" /\ op = "load_full_refresh" /\ df # <<>>) =>
        /\ db.target.exists
        /\ db.target.rows = df
        /\ twice => db = before

\* C5 witness: the second of two successful full refreshes of one RowSet of
\* MaxRows records has returned, the table having been created by the engine.
C5_Witness ==
    /\ pc = "returned" /\ op = "load_full_refresh" /\ twice
    /\ Len(df) = MaxRows /\ db.target.uniq = {}

\* C6: when a load_incremental call has returned or raised, no staging table
\* exists, neither committed nor in the connection's view.
C6_NoStagingLeft ==
    (Done /\ op = "load_incremental") =>
        (~db.staging.exists /\ ~txn.staging.exists)

\* C6 witness: a load_incremental call raised after its staging table had
\* been created and the merge had run (the drop or the commit failed).
C6_Witness ==
    /\ pc = "raised" /\ op = "load_incremental"
    /\ Logged("stage") /\ Logged("merge")

\* C8: when a load call raises on a target table that existed, the committed
\* table is the one the call found.
C8_RaiseKeepsRows ==
    (pc = "raised" /\ before.target.exists) =>
        (db.target.exists /\ db.target.rows = before.target.rows)

\* C8 witness: a call raised after it truncated a non-empty table.
C8_Witness ==
    /\ pc = "raised" /\ before.target.exists /\ before.target.rows # <<>>
    /\ Logged("truncate")

\* C9 (as claimed): a successful load call commits exactly once, as its last
\* store action.
C9_CommitsOnceAtEnd ==
    (pc = "returned") =>
        (Count(log, "commit") = 1 /\ log[Len(log)] = "commit")

\* C10: when a load call has raised, connection.rollback() was its last store
\* action.
C10_RollbackBeforeRaise ==
    (pc = "raised") => (log # <<>> /\ log[Len(log)] = "rollback")

\* C3 (as claimed): when get_results raises the timeout error, no more than
\* max_wait_time plus one poll_interval has passed since the wait began.
C3_TimeoutBound ==
    (xpc = "raised" /\ xexc = "TimeoutError") =>
        (clock - start_time <= max_wait + poll_interval)

\* C10 witness: a load_incremental call raised because its merge statement
\* was rejected.
C10_Witness ==
    /\ pc = "raised" /\ op = "load_incremental"
    /\ exc = "InvalidColumnReference" /\ Logged("rollback")
\* ------------------------------------------------------------------ claims on DuneBitcoinPipeline
PipelineDone(entry) == ppc = "done" /\ call.entry = entry
Attempted == [i \in 1..Len(outcome.jobs) |-> outcome.jobs[i].table]
Descriptors == [i \in 1..Len(etl_job) |-> etl_job[i].name]
FailingJobs == {i \in 1..Len(etl_job) : etl_job[i].id \in remote_failed}

\* C1: when the control table is read and the remote execution of one
\* descriptor's query fails, run_pipeline has attempted every descriptor of
\* the list, in order, and has returned without raising.
C1_LaterDescriptorsAttempted ==
    (PipelineDone("run_pipeline") /\ call.env = "ok" /\ ~call.fault
        /\ FailingJobs # {}) =>
    (outcome.status = "returned" /\ Attempted = Descriptors)

\* C2: when exactly one job of the batch fails remotely, run_pipeline returns
\* a report that marks that job and no other as failed, and every other job
\* has loaded its rows.
C2_ReportMarksOneFailure ==
    (PipelineDone("run_pipeline") /\ call.env = "ok" /\ ~call.fault
        /\ Cardinality(FailingJobs) = 1) =>
    /\ outcome.status = "returned"
    /\ outcome.value # NoneValue
    /\ Len(outcome.jobs) = Len(etl_job)
    /\ \A i \in 1..Len(outcome.jobs) :
        /\ (outcome.jobs[i].exc # "none") <=> (i \in FailingJobs)
        /\ (i \notin FailingJobs) => (outcome.jobs[i].loads # <<>>)

\* The job of the call has read the watermark and found none.
AbsentWatermark(r) == r.watermark = LookupReturned(<<>>)

\* C7: a sync job whose watermark lookup returns absent goes on with
\* sync_table_full_refresh and neither fetches incrementally nor runs
\* load_incremental.
C7_AbsentWatermarkFullRefresh ==
    (ppc = "done") =>
    \A i \in 1..Len(outcome.jobs) :
        AbsentWatermark(outcome.jobs[i]) =>
            /\ outcome.jobs[i].calls =
                    <<"sync_table_incremental", "get_max_value",
                      "sync_table_full_refresh">>
                  \/ outcome.jobs[i].calls =
                    <<"sync_table_incremental", "get_max_value",
                      "sync_table_full_refresh", "DuneToPgWorker.run">>
            /\ "DuneToPgWorker.fetch" \notin ToSet(outcome.jobs[i].calls)
            /\ "load_incremental" \notin ToSet(outcome.jobs[i].loads)

\* An incremental sync has read an absent watermark and entered
\* sync_table_full_refresh.
C7_Witness ==
    /\ PipelineDone("sync_table_incremental")
    /\ ~call.fault
    /\ AbsentWatermark(outcome.jobs[1])
    /\ "sync_table_full_refresh" \in ToSet(outcome.jobs[1].calls)


\* C11: a full-refresh sync job whose remote execution completes submits the
\* query, then runs load_full_refresh on the fetched rows and succeeds.
C11_FullRefreshJobLoads ==
    (PipelineDone("sync_table_full_refresh")
        /\ call.job.id \notin remote_failed) =>
    /\ outcome.status = "returned"
    /\ outcome.jobs[1].submitted # <<>>
    /\ outcome.jobs[1].loads = <<"load_full_refresh">>

\* The watermark lookup of the job returned a value.
PresentWatermark(r) ==
    r.watermark.lookup = "returned" /\ r.watermark.value # <<>>

\* C12: an incremental sync job whose watermark is present and whose remote
\* execution completes submits the query, then passes the fetched rows to
\* load_incremental, and succeeds.
C12_IncrementalJobLoads ==
    (PipelineDone("sync_table_incremental")
        /\ PresentWatermark(outcome.jobs[1])
        /\ call.job.id \notin remote_failed) =>
    /\ outcome.status = "returned"
    /\ outcome.jobs[1].submitted # <<>>
    /\ "load_incremental" \in ToSet(outcome.jobs[1].loads)

\* The path a job of the loop entered: the first call it made.
PathOf(r) == IF r.calls = <<>> THEN "none" ELSE r.calls[1]

\* C13: the loop of run_pipeline sends a descriptor whose sync_type is
\* "full_refresh" to sync_table_full_refresh, and one whose sync_type is
\* "incremental" or missing to sync_table_incremental.
C13_DispatchBySyncType ==
    PipelineDone("for_table_in_tables_to_sync") =>
    /\ Len(outcome.jobs) = Len(call.sync_types)
    /\ \A i \in 1..Len(outcome.jobs) :
        /\ (call.sync_types[i] = "full_refresh") =>
                PathOf(outcome.jobs[i]) = "sync_table_full_refresh"
        /\ (call.sync_types[i] \in {"incremental", NoneValue}) =>
                PathOf(outcome.jobs[i]) = "sync_table_incremental"

\* Errors of the program itself, not of a sync job.
ProgrammingErrors == {"AttributeError", "TypeError"}

\* C14: when a job of the loop raises a programming error, the loop does not
\* go on: the error leaves run_pipeline and that job is the last one run.
C14_ProgrammingErrorPropagates ==
    (PipelineDone("for_table_in_tables_to_sync")
        /\ \E i \in 1..Len(outcome.jobs) : outcome.jobs[i].exc \in ProgrammingErrors) =>
    /\ outcome.status = "raised"
    /\ outcome.exc \in ProgrammingErrors
    /\ \A i \in 1..Len(outcome.jobs) :
        (outcome.jobs[i].exc \in ProgrammingErrors) => i = Len(outcome.jobs)

\* The retrieval of the descriptors of the call failed: get_tables_to_sync
\* raised, or its query failed and it returned None.
RetrievalFailed ==
    LET r == get_tables_to_sync(RunPipelineCallArguments, call.env, etl_job)
    IN  r.kind = "raise" \/ r.value.type = "NoneType"

\* C15: when the retrieval of the descriptors fails, run_pipeline raises and
\* no sync job has been started: nothing was submitted, nothing was written.
C15_RetrievalFailureAborts ==
    (PipelineDone("run_pipeline") /\ RetrievalFailed) =>
    /\ outcome.status = "raised"
    /\ outcome.jobs = <<>>
    /\ db = before /\ txn = db /\ pc = "idle" /\ xpc = "idle"

\* run_pipeline has met a control database it could not connect to, and raised.
C15_Witness ==
    /\ PipelineDone("run_pipeline")
    /\ call.env = "connect_fails"
    /\ RetrievalFailed
    /\ outcome.status = "raised"

\* ------------------------------------------------------------------ claims on DuneExtractor (2)
\* C16: once a status response carries QUERY_STATE_FAILED, get_results raises
\* a RuntimeError with the remote error message; no further status request
\* and no new submission follows, and fetch raises to its caller.
C16_FailedNotRetried ==
    /\ [](response = "QUERY_STATE_FAILED" =>
            /\ xpc \in {"fetch_except", "raised"}
            /\ xexc = "RuntimeError"
            /\ error_msg = ErrorMessage(error))
    /\ [][response = "QUERY_STATE_FAILED" =>
            /\ xpc' \in {"fetch_except", "raised", "idle"}
            /\ (xpc' = "idle") => (xpc = "raised")
            /\ (xpc' # "idle") => UNCHANGED <<polls, payload, submit_time>>]_vars

\* fetch has raised the RuntimeError of a failed execution whose response
\* carried an error message.
C16_Witness ==
    /\ xpc = "raised" /\ xexc = "RuntimeError"
    /\ response = "QUERY_STATE_FAILED"
    /\ error = "syntax error" /\ error_msg = "syntax error"
    /\ polls = 1

\* C17: the elapsed time the poll loop compares with max_wait_time runs from
\* the submission of the execution: when more than max_wait_time has passed
\* since execute_query sent it, the check of the loop times out.
C17_ElapsedFromSubmission ==
    (xpc = "check_timeout" /\ clock - submit_time > max_wait) => TimedOut

\* ------------------------------------------------------------------ claims on PgLoader (2)
\* The call is a full-refresh load: PgLoader.load_full_refresh, called
\* directly or by load_to_postgres, or a load_to_postgres of that strategy.
FullRefreshLoad ==
    \/ op = "load_full_refresh"
    \/ op = "load_to_postgres" /\ strategy = "full_refresh"

\* C18: after a full-refresh load of zero records, made directly or through
\* load_to_postgres, the target table exists and holds no row.
C18_EmptyFullRefresh ==
    (pc = "returned" /\ df = <<>> /\ FullRefreshLoad) =>
    (db.target.exists /\ db.target.rows = <<>>)

\* The store a successful load_full_refresh of `d` leaves when it began in
\* store `b`: the schema exists, the target table exists with its constraint,
\* if it had one, and holds the rows of `d`.
FullRefreshStore(b, d) ==
    [schema |-> TRUE,
     target |-> Table(d, IF b.target.exists THEN b.target.uniq ELSE {}),
     staging |-> b.staging]
\* The stores a failed load_full_refresh may leave: the rows are as before;
\* the schema and the empty table may have been created.
FullRefreshFailureStores(b) ==
    {b, [b EXCEPT !.schema = TRUE]}
    \cup (IF b.target.exists THEN {}
          ELSE {[b EXCEPT !.schema = TRUE, !.target = Table(<<>>, {})]})
\* What load_full_refresh itself leaves.
FullRefreshResult ==
    /\ (pc = "returned") => (db = FullRefreshStore(before, df))
    /\ (pc = "raised") => (db \in FullRefreshFailureStores(before))
FullRefreshPositions ==
    {"lfr_schema", "lfr_exists", "lfr_create", "lfr_truncate", "lfr_insert",
     "lfr_commit", "lfr_except", "returned", "raised"}

\* C19: load_incremental with empty unique_keys runs the statements of
\* load_full_refresh and leaves the store load_full_refresh leaves for the
\* same rows and the same prior store; it uses no staging table.
C19_NoKeysIsFullRefresh ==
    /\ (op = "load_full_refresh") => FullRefreshResult
    /\ (op = "load_incremental" /\ uk = <<>>) =>
        /\ pc \in FullRefreshPositions
        /\ FullRefreshResult
        /\ ToSet(log) \cap {"stage", "merge", "drop"} = {}
        /\ ~txn.staging.exists

\* load_incremental without unique keys has replaced the rows of an existing
\* table.
C19_Witness ==
    /\ pc = "returned" /\ op = "load_incremental" /\ uk = <<>>
    /\ before.target.exists /\ before.target.rows # <<>>
    /\ df # <<>> /\ df # before.target.rows
    /\ db.target.rows = df

\* C20: load_incremental with unique keys on a missing table creates the
\* table and inserts every row, with no staging table and no merge, and
\* leaves the table load_full_refresh leaves.
C20_NewTableIsFullLoad ==
    /\ (pc = "returned" /\ op = "load_full_refresh") =>
            (db = FullRefreshStore(before, df))
    /\ (pc = "returned" /\ op = "load_incremental" /\ uk # <<>>
            /\ ~before.target.exists) =>
        /\ db = FullRefreshStore(before, df)
        /\ db.target.exists /\ db.target.rows = df
        /\ Logged("create_table")
        /\ ToSet(log) \cap {"stage", "merge", "drop"} = {}
        /\ ~db.staging.exists

\* load_incremental with a unique key has created the table and loaded two
\* rows.
C20_Witness ==
    /\ pc = "returned" /\ op = "load_incremental" /\ uk = <<"id">>
    /\ ~before.target.exists
    /\ Len(df) = 2
    /\ db.target.rows = df

\* ------------------------------------------------------------------ claims on DuneExtractor (3)
\* C21: when every HTTP request returns and time advances, a job's fetch,
\* once called, ends: its poll loop is left by completion, by a remote
\* failure, by an HTTP error or by the timeout.
C21_FetchEnds ==
    (xpc # "idle") ~> (xpc \in {"returned", "raised"})

\* A poll loop has been ended by the timeout after several polls.
C21_Witness ==
    /\ xpc = "raised" /\ xexc = "TimeoutError"
    /\ polls >= 2
    /\ response \in NonTerminalStates

\* ------------------------------------------------------------------ claims on concurrent upserts
\* C22: two upserts that run at the same time never have the same staging
\* table name.
C22_StagingNamesDistinct ==
    \A p, q \in Loaders :
        (p # q /\ temp_table_name[p] # NoName /\ temp_table_name[q] # NoName) =>
            temp_table_name[p] # temp_table_name[q]

\* ------------------------------------------------------------------ claims on DuneExtractor (4)
\* C23: whenever a status request is sent, the time elapsed since the wait
\* began does not exceed max_wait_time.
C23_CheckedBeforeRequest ==
    [][(polls' = polls + 1) => (clock - start_time <= max_wait)]_vars

\* A status request is about to be sent, after an earlier one, when exactly
\* max_wait_time has elapsed.
C23_Witness ==
    /\ xpc = "status_request" /\ polls >= 1
    /\ max_wait > 0
    /\ clock - start_time = max_wait

\* C24: get_results returns rows only after a response whose state is
\* QUERY_STATE_COMPLETED, and the rows are set by that response; after a
\* response with any state but COMPLETED and FAILED it sleeps poll_interval
\* and goes back to the top of the loop.
C24_RowsOnlyOnCompleted ==
    /\ [](xpc \in {"fetch_return", "returned"} =>
            (response = "QUERY_STATE_COMPLETED" /\ result \in ResultRows))
    /\ [][(result' # result) =>
            \/ xpc = "status_request" /\ response' = "QUERY_STATE_COMPLETED"
            \/ result' = <<>> /\ xpc' \in {"idle", "execute_query"}]_vars
    /\ [][(xpc = "status_request" /\ xexc' = "none"
            /\ response' \notin {"QUERY_STATE_COMPLETED", "QUERY_STATE_FAILED"}) =>
            xpc' = "sleep"]_vars
    /\ [][(xpc = "sleep") =>
            (clock' = clock + poll_interval /\ xpc' = "check_timeout")]_vars

\* fetch has returned the rows of a completed execution after at least one
\* sleep.
C24_Witness ==
    /\ xpc = "returned"
    /\ response = "QUERY_STATE_COMPLETED"
    /\ result # <<>>
    /\ polls >= 2

\* C27: a non-2xx answer to a status request makes get_results raise at once:
\* no status request and no wait follows, and fetch raises to its caller.
C27_HttpErrorEndsPolling ==
    /\ []((xexc = "HTTPError" /\ polls >= 1) => xpc \in {"fetch_except", "raised"})
    /\ [][(xexc = "HTTPError" /\ polls >= 1) =>
            \/ xpc = "raised" /\ xpc' = "idle"
            \/ UNCHANGED <<polls, clock>>]_vars

\* fetch has raised the HTTP error of its first status request, long before
\* max_wait_time.
C27_Witness ==
    /\ xpc = "raised" /\ xexc = "HTTPError"
    /\ polls = 1
    /\ max_wait = DefaultMaxWaitTime
    /\ clock - start_time < max_wait

\* ------------------------------------------------------------------ claims on DuneBitcoinPipeline (3)
\* C25: an incremental sync job whose watermark is present, the value 0
\* included, submits the remote query once, with that value as its query
\* parameter.
C25_WatermarkSubmitted ==
    (PipelineDone("sync_table_incremental")
        /\ PresentWatermark(outcome.jobs[1])) =>
    outcome.jobs[1].submitted = <<outcome.jobs[1].watermark.value>>

\* A sync_type that neither the specification nor the code knows.
InvalidSyncType(t) ==
    t \notin {NoneValue, "full_refresh", "incremental", "sync_incremental"}

RaisedWhileInserting ==
    /\ pc = "raised"
    /\ Len(log) >= 2
    /\ log[Len(log) - 1] = "insert"
    /\ log[Len(log)] = "rollback"

\* C28: when the target table did not exist before a load_full_refresh or
\* load_incremental call and the call raises while inserting the rows, the
\* target table does not exist after the call.
C28_RollbackUndoesCreate ==
    (RaisedWhileInserting /\ ~before.target.exists) =>
        (~db.target.exists /\ ~txn.target.exists)

====
